---- MODULE Spec2Model ----
(***************************************************************************)
(* A model of kelly: the odds parser, the input validator, the three       *)
(* allocation strategies (arbitrage, Kelly, proportional), the command     *)
(* line that runs them and the key handler of the terminal interface.      *)
(*                                                                         *)
(* Numbers.  The program computes on float64; the model computes on exact  *)
(* fixed-point integers:                                                   *)
(*   odds, probabilities   in hundredths        (2.50  -> 250, 0.55 -> 55) *)
(*   TotalStake            in thousandths       (0.015 -> 15)              *)
(*   2-decimal outputs     in cents             (571.43 -> 57143)          *)
(*   4-decimal outputs     in ten-thousandths   (0.4286 -> 4286)           *)
(*   unrounded payouts     in ten-thousandths   (cents * hundredths)       *)
(* Every product is formed so that it stays inside 32 bits.                *)
(***************************************************************************)
EXTENDS Integers, Sequences, FiniteSets, TLC

VARIABLES input, pc, calc, result, err, verrs, text, parsed,
          compare, accepted, loop, model

vars == <<input, pc, calc, result, err, verrs, text, parsed,
          compare, accepted, loop, model>>

(***************************************************************************)
(* Bounds of the model: how many of the candidate values below are used.   *)
(***************************************************************************)
NumOdds == 8
NumStakes == 4
NumProbs == 4

\* odds in hundredths: values of the tests and the README, the floor 1.01,
\* the parse floor 1.00 and one value below it
OddsValues == <<250, 300, 200, 150, 400, 101, 100, 50, 500, 190, 210, 350>>
\* total stakes in thousandths: 1000.00, 0.015, 0.02, 0.01, 1.00, 0.03, 0.005
StakeValues == <<1000000, 15, 20, 10, 1000, 30, 5>>
\* probabilities in hundredths; 0 is "not given"
ProbValues == <<0, 50, 90, 30, 60, 70, 55, 40, 15, 80>>

Prefix(s, n) == {s[i] : i \in 1..(IF n < Len(s) THEN n ELSE Len(s))}

OddsSet == Prefix(OddsValues, NumOdds)
StakeSet == Prefix(StakeValues, NumStakes)
ProbSet == Prefix(ProbValues, NumProbs)

MethodArbitrage == "arbitrage"
MethodKelly == "kelly"
MethodProportional == "proportional"
Methods == {MethodArbitrage, MethodKelly, MethodProportional, "unknown"}

(***************************************************************************)
(* Values.                                                                 *)
(***************************************************************************)
Nil == "nil"
NaN == "NaN"
PosInf == "+Inf"
NegInf == "-Inf"
NotNumbers == {ToString(NaN), ToString(PosInf), ToString(NegInf)}
\* x is a finite number, not NaN or an infinity
IsNum(x) == ToString(x) \notin NotNumbers
\* x is the nil pointer or the nil error
IsNil(x) == ToString(x) = ToString(Nil)

\* float64 comparisons of values that may be NaN or an infinity: every
\* comparison with NaN is false, and so x != y is true
IsNaN(x) == ToString(x) = ToString(NaN)

LeqF(x, y) ==
  IF IsNum(x) /\ IsNum(y) THEN x <= y
  ELSE IF IsNaN(x) \/ IsNaN(y) THEN FALSE
  ELSE ToString(x) = ToString(NegInf) \/ ToString(y) = ToString(PosInf)

EqF(x, y) ==
  IF IsNum(x) /\ IsNum(y) THEN x = y
  ELSE ~IsNaN(x) /\ ~IsNaN(y) /\ ToString(x) = ToString(y)

LtF(x, y) == LeqF(x, y) /\ ~EqF(x, y)
GtF(x, y) == LtF(y, x)
GeqF(x, y) == LeqF(y, x)

Abs(x) == IF x < 0 THEN -x ELSE x
Sign(x) == IF x < 0 THEN -1 ELSE IF x > 0 THEN 1 ELSE 0

\* <<q, r>> with x*y = q*d + r and 0 <= r < d, for x, y >= 0 and d > 0:
\* directly when the product fits 32 bits, else by doubling on x so that no
\* intermediate exceeds 3*d
RECURSIVE MulDivMod(_, _, _)
MulDivMod(x, y, d) ==
  IF x = 0 \/ y = 0 THEN <<0, 0>>
  ELSE IF x <= 2147483647 \div y THEN <<(x * y) \div d, (x * y) % d>>
  ELSE LET h == MulDivMod(x \div 2, y, d)
           odd == (x % 2 = 1)
           q2 == 2 * h[1] + (IF odd THEN y \div d ELSE 0)
           r2 == 2 * h[2] + (IF odd THEN y % d ELSE 0)
       IN <<q2 + (r2 \div d), r2 % d>>

\* math.Round: the integer nearest to x*y/d, halves away from zero (d # 0)
RoundHalfAway(x, y, d) ==
  LET m == MulDivMod(Abs(x), Abs(y), Abs(d))
      mag == m[1] + (IF 2 * m[2] >= Abs(d) THEN 1 ELSE 0)
  IN Sign(x) * Sign(y) * Sign(d) * mag

\* mutant: the value is truncated instead of rounded
round_Truncates(x, y, d) ==
  Sign(x) * Sign(y) * Sign(d) * MulDivMod(Abs(x), Abs(y), Abs(d))[1]

\* round(val, decimals) with val = x*y/d given in units of 10^-decimals:
\* the result is the count of those units
round(x, y, d) == RoundHalfAway(x, y, d)

\* 1/odds as the pair <<numerator, denominator>>; 0 for odds <= 0
impliedProbability(odds) == IF odds <= 0 THEN <<0, 1>> ELSE <<100, odds>>

\* the sum of the two implied probabilities as a pair
marketEfficiency(oddsA, oddsB) ==
  LET a == impliedProbability(oddsA)
      b == impliedProbability(oddsB)
  IN <<a[1] * b[2] + b[1] * a[2], a[2] * b[2]>>

\* mutant: marketEff <= 1.0
LessThanOne_OrEqual(r) == r[1] <= r[2]

\* marketEff < 1.0
LessThanOne(r) == r[1] < r[2]

\* x/0 in float64, by the sign of x
DivByZero(x) == IF x > 0 THEN PosInf ELSE IF x < 0 THEN NegInf ELSE NaN

\* x*m and x - c for a float64 x that may be NaN or an infinity
MulF(x, m) ==
  IF IsNum(x) THEN x * m
  ELSE IF x = NaN \/ m = 0 THEN NaN
  ELSE IF m > 0 THEN x
  ELSE IF x = PosInf THEN NegInf ELSE PosInf

SubF(x, c) == IF IsNum(x) THEN x - c ELSE x

AddF(x, y) ==
  IF IsNum(x) /\ IsNum(y) THEN x + y
  ELSE IF IsNum(x) THEN y
  ELSE IF IsNum(y) THEN x
  ELSE IF x = y THEN x ELSE NaN

\* Go's math.Min and math.Max
MathMin(x, y) ==
  IF IsNum(x) /\ IsNum(y) THEN (IF x < y THEN x ELSE y)
  ELSE IF (~IsNum(x) /\ x = NegInf) \/ (~IsNum(y) /\ y = NegInf) THEN NegInf
  ELSE IF (~IsNum(x) /\ x = NaN) \/ (~IsNum(y) /\ y = NaN) THEN NaN
  ELSE IF IsNum(x) THEN x ELSE y

\* mutant: the maximum is always the first operand
MathMax_First(x, y) == x

MathMax(x, y) ==
  IF IsNum(x) /\ IsNum(y) THEN (IF x > y THEN x ELSE y)
  ELSE IF (~IsNum(x) /\ x = PosInf) \/ (~IsNum(y) /\ y = PosInf) THEN PosInf
  ELSE IF (~IsNum(x) /\ x = NaN) \/ (~IsNum(y) /\ y = NaN) THEN NaN
  ELSE IF IsNum(x) THEN x ELSE y

\* round(v, 2) of an unrounded amount in ten-thousandths
RoundCents(p4) == IF IsNum(p4) THEN round(1, p4, 100) ELSE p4

\* round(profit/TotalStake, 4): profit in ten-thousandths, stake in thousandths
RoundROI(p4, total) == IF IsNum(p4) THEN round(1000, p4, total) ELSE p4

(***************************************************************************)
(* What the three strategies share: the two Options and the Summary.       *)
(***************************************************************************)
\* mutant: the total stake is not subtracted
ProfitOf_WithoutStake(stake, odds, total) == MulF(stake, odds)

\* stake*odds - TotalStake, unrounded, in ten-thousandths
ProfitOf(stake, odds, total) == SubF(MulF(stake, odds), 10 * total)

Option(odds, prob, stake, total) ==
  [Odds |-> odds,
   ImpliedProbability |-> impliedProbability(odds),
   Probability |-> prob,
   Stake |-> stake,
   ReturnIfWins |-> RoundCents(MulF(stake, odds)),
   ProfitIfWins |-> RoundCents(ProfitOf(stake, odds, total)),
   ROI |-> RoundROI(ProfitOf(stake, odds, total), total)]

Summary(in, profitA, profitB, expectedValue) ==
  LET marketEff == marketEfficiency(in.OddsA, in.OddsB)
  IN [GuaranteedProfit |-> LessThanOne(marketEff),
      MinProfit |-> RoundCents(MathMin(profitA, profitB)),
      MaxProfit |-> RoundCents(MathMax(profitA, profitB)),
      ExpectedValue |-> expectedValue,
      MinROI |-> RoundROI(MathMin(profitA, profitB), in.TotalStake),
      MaxROI |-> RoundROI(MathMax(profitA, profitB), in.TotalStake),
      MarketEfficiency |-> round(10000, marketEff[1], marketEff[2])]

\* (profitA + profitB) / 2.0 rounded to cents
MeanProfit(profitA, profitB) ==
  LET sum == AddF(profitA, profitB)
  IN IF IsNum(sum) THEN round(1, sum, 200) ELSE sum

(***************************************************************************)
(* ArbitrageCalculator.Calculate                                           *)
(***************************************************************************)
\* mutant: both stakes take the numerator of stakeA
ArbitrageStakes_SameNumerator(in) ==
  LET denominator == in.OddsA + in.OddsB - 200
  IN IF denominator = 0
     THEN [A |-> DivByZero(in.TotalStake * (in.OddsB - 100)),
           B |-> DivByZero(in.TotalStake * (in.OddsB - 100))]
     ELSE [A |-> round(in.TotalStake, in.OddsB - 100, 10 * denominator),
           B |-> round(in.TotalStake, in.OddsB - 100, 10 * denominator)]

ArbitrageStakes(in) ==
  LET denominator == in.OddsA + in.OddsB - 200
  IN IF denominator = 0
     THEN [A |-> DivByZero(in.TotalStake * (in.OddsB - 100)),
           B |-> DivByZero(in.TotalStake * (in.OddsA - 100))]
     ELSE [A |-> round(in.TotalStake, in.OddsB - 100, 10 * denominator),
           B |-> round(in.TotalStake, in.OddsA - 100, 10 * denominator)]

ArbitrageCalculate(in) ==
  LET s == ArbitrageStakes(in)
      profitA == ProfitOf(s.A, in.OddsA, in.TotalStake)
      profitB == ProfitOf(s.B, in.OddsB, in.TotalStake)
  IN [result |-> [Method |-> MethodArbitrage,
                  TotalStake |-> in.TotalStake,
                  OptionA |-> Option(in.OddsA, 0, s.A, in.TotalStake),
                  OptionB |-> Option(in.OddsB, 0, s.B, in.TotalStake),
                  Summary |-> Summary(in, profitA, profitB,
                                      MeanProfit(profitA, profitB))],
      err |-> Nil]

(***************************************************************************)
(* ProportionalCalculator.Calculate                                        *)
(***************************************************************************)
\* mutant: the weights are the odds, not their inverses
ProportionalStakes_ByOdds(in) ==
  [A |-> round(in.TotalStake, in.OddsA, 10 * (in.OddsA + in.OddsB)),
   B |-> round(in.TotalStake, in.OddsB, 10 * (in.OddsA + in.OddsB))]

\* mutant: the total is split evenly
ProportionalStakes_Even(in) ==
  [A |-> round(in.TotalStake, 1, 20), B |-> round(in.TotalStake, 1, 20)]

\* weightA/totalWeight = (1/a)/(1/a + 1/b) = b/(a + b)
ProportionalStakes(in) ==
  [A |-> round(in.TotalStake, in.OddsB, 10 * (in.OddsA + in.OddsB)),
   B |-> round(in.TotalStake, in.OddsA, 10 * (in.OddsA + in.OddsB))]

ProportionalCalculate(in) ==
  LET s == ProportionalStakes(in)
      profitA == ProfitOf(s.A, in.OddsA, in.TotalStake)
      profitB == ProfitOf(s.B, in.OddsB, in.TotalStake)
  IN [result |-> [Method |-> MethodProportional,
                  TotalStake |-> in.TotalStake,
                  OptionA |-> Option(in.OddsA, 0, s.A, in.TotalStake),
                  OptionB |-> Option(in.OddsB, 0, s.B, in.TotalStake),
                  Summary |-> Summary(in, profitA, profitB,
                                      MeanProfit(profitA, profitB))],
      err |-> Nil]

(***************************************************************************)
(* KellyCalculator.Calculate                                               *)
(***************************************************************************)
\* mutant: the fraction is not clamped at 0
KellyFraction_Unclamped(prob, odds) ==
  LET n == prob * odds - 10000
      d == odds - 100
  IN IF d = 0 THEN <<0, 1>> ELSE <<n * Sign(d), Abs(d)>>

\* math.Max(0, (prob*odds - 1.0)/(odds - 1.0)) as the pair <<n, d>> standing
\* for n/(100*d), with d > 0.  At odds = 1.00 and prob < 1 the quotient is
\* -Inf and the maximum is 0.
KellyFraction(prob, odds) ==
  LET n == prob * odds - 10000
      d == odds - 100
  IN IF d = 0 /\ n < 0 THEN <<0, 1>>
     ELSE IF n * Sign(d) <= 0 THEN <<0, 1>>
     ELSE <<n * Sign(d), Abs(d)>>

\* mutant: the stakes are never scaled down
RawExceedsTotal_Never(total, kellyA, kellyB) == FALSE

\* mutant: the stakes are always scaled down
RawExceedsTotal_Always(total, kellyA, kellyB) == TRUE

\* totalRaw > input.TotalStake, with totalRaw = TotalStake*(kellyA + kellyB)
RawExceedsTotal(total, kellyA, kellyB) ==
  LET sum == kellyA[1] * kellyB[2] + kellyB[1] * kellyA[2]
      one == 100 * kellyA[2] * kellyB[2]
  IN IF total > 0 THEN sum > one
     ELSE IF total < 0 THEN sum < one
     ELSE FALSE

KellyStakes(in) ==
  LET kellyA == KellyFraction(in.ProbA, in.OddsA)
      kellyB == KellyFraction(in.ProbB, in.OddsB)
      sum == kellyA[1] * kellyB[2] + kellyB[1] * kellyA[2]
  IN IF RawExceedsTotal(in.TotalStake, kellyA, kellyB)
     THEN \* rawStake*scale = TotalStake * kelly/(kellyA + kellyB)
          [A |-> round(in.TotalStake, kellyA[1] * kellyB[2], 10 * sum),
           B |-> round(in.TotalStake, kellyB[1] * kellyA[2], 10 * sum)]
     ELSE [A |-> round(in.TotalStake, kellyA[1], 1000 * kellyA[2]),
           B |-> round(in.TotalStake, kellyB[1], 1000 * kellyB[2])]

\* Exact sums of products too wide for 32 bits: <<hi, lo>> stands for
\* hi*10000 + lo with 0 <= lo < 10000.
WideMul(x, m) ==
  <<(x \div 10000) * m + (((x % 10000) * m) \div 10000),
    ((x % 10000) * m) % 10000>>

WideAdd(u, v) ==
  <<u[1] + v[1] + ((u[2] + v[2]) \div 10000), (u[2] + v[2]) % 10000>>

\* the integer nearest to hi + lo/10000, halves away from zero
WideRound(w) ==
  IF w[1] >= 0 THEN w[1] + (IF 2 * w[2] >= 10000 THEN 1 ELSE 0)
  ELSE w[1] + (IF 2 * w[2] > 10000 THEN 1 ELSE 0)

\* mutant: the "neither wins" mass is left out
KellyExpectedValue_NoResidual(in, profitA, profitB) ==
  WideRound(WideAdd(WideMul(profitA, in.ProbA), WideMul(profitB, in.ProbB)))

\* probA*profitA + probB*profitB, plus (1 - probSum)*(-TotalStake) when
\* probSum < 1.0; rounded to cents
KellyExpectedValue(in, profitA, profitB) ==
  LET won == WideAdd(WideMul(profitA, in.ProbA), WideMul(profitB, in.ProbB))
      probSum == in.ProbA + in.ProbB
      expectedValue ==
        IF probSum < 100
        THEN WideAdd(won, WideMul(-(10 * in.TotalStake), 100 - probSum))
        ELSE won
  IN WideRound(expectedValue)

\* mutant: input.ProbA == 0 && input.ProbB == 0
MissingProbability_Both(in) == in.ProbA = 0 /\ in.ProbB = 0

\* input.ProbA == 0 || input.ProbB == 0
MissingProbability(in) == in.ProbA = 0 \/ in.ProbB = 0

KellyCalculate(in) ==
  IF MissingProbability(in)
  THEN [result |-> Nil,
        err |-> "kelly method requires probability estimates for both options"]
  ELSE
    LET s == KellyStakes(in)
        profitA == ProfitOf(s.A, in.OddsA, in.TotalStake)
        profitB == ProfitOf(s.B, in.OddsB, in.TotalStake)
    IN [result |-> [Method |-> MethodKelly,
                    TotalStake |-> in.TotalStake,
                    OptionA |-> Option(in.OddsA, in.ProbA, s.A, in.TotalStake),
                    OptionB |-> Option(in.OddsB, in.ProbB, s.B, in.TotalStake),
                    Summary |-> Summary(in, profitA, profitB,
                                        KellyExpectedValue(in, profitA, profitB))],
        err |-> Nil]

\* mutant: the default strategy is Kelly
NewCalculator_DefaultKelly(method) ==
  IF method = MethodProportional THEN MethodProportional ELSE MethodKelly

\* the strategy NewCalculator(method) returns
NewCalculator(method) ==
  IF method = MethodKelly THEN MethodKelly
  ELSE IF method = MethodProportional THEN MethodProportional
  ELSE MethodArbitrage

\* Calculate of the strategy c
Calculate(c, in) ==
  IF c = MethodKelly THEN KellyCalculate(in)
  ELSE IF c = MethodProportional THEN ProportionalCalculate(in)
  ELSE ArbitrageCalculate(in)

(***************************************************************************)
(* The input validator.  An error is its message without the formatted     *)
(* value; ValidateCalculationInput yields the list ValidationError wraps,  *)
(* empty for a nil return.                                                 *)
(***************************************************************************)
MinOdds == 101

ValidateOdds(odds) ==
  IF LtF(odds, MinOdds) THEN "odds must be >= 1.01" ELSE Nil

ValidateProbability(prob) ==
  IF LeqF(prob, 0) \/ GeqF(prob, 100)
  THEN "probability must be between 0 and 1 (exclusive)" ELSE Nil

\* mutant: a stake of zero is let through
ValidateTotalStake_ZeroAllowed(total) ==
  IF LtF(total, 0) THEN "total stake must be positive" ELSE Nil

ValidateTotalStake(total) ==
  IF LeqF(total, 0) THEN "total stake must be positive" ELSE Nil

\* the lines "  i. message" of errors i..n
RECURSIVE NumberedLines(_, _)
NumberedLines(errs, i) ==
  IF i > Len(errs) THEN ""
  ELSE "  " \o ToString(i) \o ". " \o errs[i] \o "\n"
       \o NumberedLines(errs, i + 1)

\* mutant: the numbering starts at 0
Error_FromZero(errs) ==
  IF Len(errs) = 0 THEN ""
  ELSE IF Len(errs) = 1 THEN errs[1]
  ELSE "multiple validation errors:\n" \o NumberedLines(<<"">> \o errs, 2)

\* ValidationError{Errors: errs}.Error()
Error(errs) ==
  IF Len(errs) = 0 THEN ""
  ELSE IF Len(errs) = 1 THEN errs[1]
  ELSE "multiple validation errors:\n" \o NumberedLines(errs, 1)

ErrIf(cond, e) == IF cond THEN <<e>> ELSE <<>>

ValidateCalculationInput(in) ==
  ErrIf(ValidateOdds(in.OddsA) # Nil, "Option A: " \o ValidateOdds(in.OddsA))
  \o ErrIf(ValidateOdds(in.OddsB) # Nil, "Option B: " \o ValidateOdds(in.OddsB))
  \o ErrIf(ValidateTotalStake(in.TotalStake) # Nil,
           ValidateTotalStake(in.TotalStake))
  \o (IF in.Method = MethodKelly
      THEN ErrIf(EqF(in.ProbA, 0) \/ EqF(in.ProbB, 0),
                 "Kelly method requires probability estimates for both options")
           \o ErrIf(~EqF(in.ProbA, 0) /\ ValidateProbability(in.ProbA) # Nil,
                    "Option A probability: " \o ValidateProbability(in.ProbA))
           \o ErrIf(~EqF(in.ProbB, 0) /\ ValidateProbability(in.ProbB) # Nil,
                    "Option B probability: " \o ValidateProbability(in.ProbB))
           \o ErrIf(GtF(in.ProbA, 0) /\ GtF(in.ProbB, 0) /\ in.ProbA + in.ProbB > 100,
                    "warning: probabilities sum to > 1.0")
      ELSE IF in.Method \in {MethodArbitrage, MethodProportional}
      THEN <<>>
      ELSE <<"invalid calculation method">>)
  \o ErrIf(GtF(in.OddsA, 0) /\ GtF(in.OddsB, 0)
           /\ in.Method = MethodArbitrage
           /\ ~LessThanOne(<<100 * (in.OddsA + in.OddsB), in.OddsA * in.OddsB>>),
           "warning: combined implied probability >= 100% - no guaranteed profit")

(***************************************************************************)
(* The odds parser.  A text is a sequence of characters; "NaN" and "Inf"   *)
(* stand for those words as strconv.ParseFloat reads them.  A parsed       *)
(* number is the exact ratio <<n, d>> with d > 0, or NaN, +Inf, -Inf.  An  *)
(* error is its message without the formatted text.                        *)
(***************************************************************************)
MaxLen == 4

Space == " "
DigitChars == {"0", "1", "5"}
Chars == DigitChars \cup {Space, "%", "/", "+", "-", ".", "a", "NaN", "Inf"}
Texts == UNION {[1..n -> Chars] : n \in 0..MaxLen}

Zero == <<0, 1>>

\* comparisons of exact ratios with positive denominators
LtR(x, y) == x[1] * y[2] < y[1] * x[2]

RECURSIVE GCD(_, _)
GCD(a, b) == IF b = 0 THEN a ELSE GCD(b, a % b)

\* a ratio in lowest terms
Reduce(x) ==
  LET g == GCD(Abs(x[1]), x[2])
  IN <<x[1] \div g, x[2] \div g>>

\* equality of ratios, by their lowest terms so that no product overflows
EqR(x, y) == Reduce(x) = Reduce(y)

\* strings.TrimSpace
TrimSpace(s) ==
  LET kept == {i \in 1..Len(s) : s[i] # Space}
  IN IF kept = {} THEN <<>>
     ELSE SubSeq(s, CHOOSE i \in kept : \A j \in kept : i <= j,
                    CHOOSE i \in kept : \A j \in kept : i >= j)

\* strings.HasSuffix, strings.HasPrefix, strings.Contains for one character
HasSuffix(s, c) == Len(s) > 0 /\ s[Len(s)] = c
HasPrefix(s, c) == Len(s) > 0 /\ s[1] = c
Contains(s, c) == \E i \in 1..Len(s) : s[i] = c

\* strings.TrimSuffix
TrimSuffix(s, c) == IF HasSuffix(s, c) THEN SubSeq(s, 1, Len(s) - 1) ELSE s

\* strings.Split
RECURSIVE Split(_, _)
Split(s, c) ==
  IF ~Contains(s, c) THEN <<s>>
  ELSE LET i == CHOOSE k \in 1..Len(s) :
                  s[k] = c /\ \A j \in 1..(k - 1) : s[j] # c
       IN <<SubSeq(s, 1, i - 1)>> \o Split(SubSeq(s, i + 1, Len(s)), c)

DigitValue(c) == IF c = "0" THEN 0 ELSE IF c = "1" THEN 1 ELSE 5

\* the digits of a numeral read as one integer, the point skipped
RECURSIVE Mantissa(_)
Mantissa(s) ==
  IF s = <<>> THEN 0
  ELSE LET front == SubSeq(s, 1, Len(s) - 1)
       IN IF s[Len(s)] = "." THEN Mantissa(front)
          ELSE 10 * Mantissa(front) + DigitValue(s[Len(s)])

RECURSIVE Pow10(_)
Pow10(k) == IF k = 0 THEN 1 ELSE 10 * Pow10(k - 1)

\* the number of digits after the point
FractionDigits(s) ==
  IF Contains(s, ".")
  THEN Len(s) - (CHOOSE k \in 1..Len(s) : s[k] = ".")
  ELSE 0

\* strconv.ParseFloat(s, 64): an optional sign, then digits with at most
\* one point and at least one digit, or Inf; NaN takes no sign
ParseFloat(s) ==
  LET signed == HasPrefix(s, "+") \/ HasPrefix(s, "-")
      neg == HasPrefix(s, "-")
      body == IF signed THEN SubSeq(s, 2, Len(s)) ELSE s
      points == {i \in 1..Len(body) : body[i] = "."}
      digits == {i \in 1..Len(body) : body[i] \in DigitChars}
  IN IF s = <<"NaN">> THEN [val |-> NaN, ok |-> TRUE]
     ELSE IF body = <<"Inf">>
     THEN [val |-> IF neg THEN NegInf ELSE PosInf, ok |-> TRUE]
     ELSE IF /\ digits # {}
             /\ Cardinality(points) <= 1
             /\ digits \cup points = 1..Len(body)
     THEN [val |-> <<(IF neg THEN -1 ELSE 1) * Mantissa(body),
                     Pow10(FractionDigits(body))>>,
           ok |-> TRUE]
     ELSE [val |-> Zero, ok |-> FALSE]

\* the two return values of the parsers
Failed(msg) == [odds |-> Zero, err |-> msg]
Parsed(v) == [odds |-> v, err |-> Nil]

\* mutant: the stake itself is not added to the winnings
PlusOne_Nothing(x) == x

\* x + 1.0
PlusOne(x) == <<x[1] + x[2], x[2]>>

parseDecimal(s) ==
  LET f == ParseFloat(s)
  IN IF ~f.ok THEN Failed("invalid decimal odds")
     ELSE IF IsNum(f.val) /\ LtR(f.val, <<1, 1>>)
     THEN Failed("decimal odds must be >= 1.0")
     ELSE IF ~IsNum(f.val) /\ f.val = NegInf
     THEN Failed("decimal odds must be >= 1.0")
     ELSE Parsed(f.val)

\* mutant: no upper limit on the percentage
parsePercentage_NoUpperLimit(s) ==
  LET f == ParseFloat(TrimSpace(TrimSuffix(s, "%")))
  IN IF ~f.ok THEN Failed("invalid percentage odds")
     ELSE IF ~IsNum(f.val)
     THEN IF f.val = NegInf THEN Failed("percentage must be > 0")
          ELSE IF f.val = PosInf THEN Parsed(Zero)
          ELSE Parsed(NaN)
     ELSE IF f.val[1] <= 0 THEN Failed("percentage must be > 0")
     ELSE Parsed(<<100 * f.val[2], f.val[1]>>)

parsePercentage(s) ==
  LET f == ParseFloat(TrimSpace(TrimSuffix(s, "%")))
  IN IF ~f.ok THEN Failed("invalid percentage odds")
     ELSE IF ~IsNum(f.val)
     THEN IF f.val = NegInf THEN Failed("percentage must be > 0")
          ELSE IF f.val = PosInf THEN Failed("percentage must be <= 100")
          ELSE Parsed(NaN)
     ELSE IF f.val[1] <= 0 THEN Failed("percentage must be > 0")
     ELSE IF LtR(<<100, 1>>, f.val) THEN Failed("percentage must be <= 100")
     ELSE Parsed(<<100 * f.val[2], f.val[1]>>)

\* (numerator / denominator) + 1.0 for a numerator that is not negative and
\* a denominator that is not negative and not zero
Quotient(n, d) ==
  IF IsNum(n) /\ IsNum(d) THEN PlusOne(<<n[1] * d[2], n[2] * d[1]>>)
  ELSE IF IsNum(n) THEN (IF d = PosInf THEN <<1, 1>> ELSE NaN)
  ELSE IF IsNum(d) THEN n
  ELSE NaN

parseFractional(s) ==
  LET parts == Split(s, "/")
      numerator == ParseFloat(TrimSpace(parts[1]))
      denominator == ParseFloat(TrimSpace(parts[2]))
      negative(f) == IF IsNum(f.val) THEN f.val[1] < 0 ELSE f.val = NegInf
  IN IF Len(parts) # 2 THEN Failed("invalid fractional odds")
     ELSE IF ~numerator.ok THEN Failed("invalid numerator")
     ELSE IF ~denominator.ok THEN Failed("invalid denominator")
     ELSE IF IsNum(denominator.val) /\ denominator.val[1] = 0
     THEN Failed("denominator cannot be zero")
     ELSE IF negative(numerator) \/ negative(denominator)
     THEN Failed("fractional odds must be positive")
     ELSE Parsed(Quotient(numerator.val, denominator.val))

parseAmerican(s) ==
  LET f == ParseFloat(s)
      american == f.val
  IN IF ~f.ok THEN Failed("invalid American odds")
     ELSE IF ~IsNum(american)
     THEN IF american = PosInf THEN Parsed(PosInf)
          ELSE IF american = NegInf THEN Parsed(<<1, 1>>)
          ELSE Parsed(NaN)
     ELSE IF american[1] = 0 THEN Failed("American odds cannot be zero")
     ELSE IF american[1] > 0
     THEN Parsed(PlusOne(<<american[1], 100 * american[2]>>))
     ELSE Parsed(PlusOne(<<100 * american[2], -american[1]>>))

\* mutant: the sign is looked at before the '%' and the '/'
ParseOdds_SignFirst(s) ==
  LET trimmed == TrimSpace(s)
  IN IF trimmed = <<>> THEN Failed("odds cannot be empty")
     ELSE IF HasPrefix(trimmed, "+") \/ HasPrefix(trimmed, "-")
     THEN parseAmerican(trimmed)
     ELSE IF HasSuffix(trimmed, "%") THEN parsePercentage(trimmed)
     ELSE IF Contains(trimmed, "/") THEN parseFractional(trimmed)
     ELSE parseDecimal(trimmed)

ParseOdds(s) ==
  LET trimmed == TrimSpace(s)
  IN IF trimmed = <<>> THEN Failed("odds cannot be empty")
     ELSE IF HasSuffix(trimmed, "%") THEN parsePercentage(trimmed)
     ELSE IF Contains(trimmed, "/") THEN parseFractional(trimmed)
     ELSE IF HasPrefix(trimmed, "+") \/ HasPrefix(trimmed, "-")
     THEN parseAmerican(trimmed)
     ELSE parseDecimal(trimmed)

(***************************************************************************)
(* The state machine: an input is built, then validated or handed to a     *)
(* strategy.                                                               *)
(***************************************************************************)
Inputs ==
  [Method : Methods, OddsA : OddsSet, OddsB : OddsSet,
   TotalStake : StakeSet, ProbA : ProbSet, ProbB : ProbSet]

Init ==
  /\ input \in Inputs
  /\ pc = "start"
  /\ calc = Nil
  /\ result = Nil
  /\ err = Nil
  /\ verrs = Nil
  /\ text = <<>>
  /\ parsed = Nil
  /\ compare = FALSE
  /\ accepted = Nil
  /\ loop = 0
  /\ model = Nil

\* validator.ValidateCalculationInput(input)
Validate ==
  /\ pc = "start"
  /\ verrs' = ValidateCalculationInput(input)
  /\ pc' = "validated"
  /\ UNCHANGED <<input, calc, result, err, text, parsed, compare, accepted, loop, model>>

\* a direct call of a strategy's Calculate, as the tests make it
CalculateDirect(c) ==
  /\ pc = "start"
  /\ calc' = c
  /\ LET returned == Calculate(c, input)
     IN result' = returned.result /\ err' = returned.err
  /\ pc' = "calculated"
  /\ UNCHANGED <<input, verrs, text, parsed, compare, accepted, loop, model>>

\* runCLI after a nil validation: NewCalculator(input.Method).Calculate(input)
CalculateValidated ==
  /\ pc = "validated"
  /\ verrs = <<>>
  /\ calc' = NewCalculator(input.Method)
  /\ LET returned == Calculate(NewCalculator(input.Method), input)
     IN result' = returned.result /\ err' = returned.err
  /\ pc' = "calculated"
  /\ UNCHANGED <<input, verrs, text, parsed, compare, accepted, loop, model>>

\* NewCalculator(input.Method).Calculate(input) with no validation before
CalculateByMethod ==
  /\ pc = "start"
  /\ calc' = NewCalculator(input.Method)
  /\ LET returned == Calculate(NewCalculator(input.Method), input)
     IN result' = returned.result /\ err' = returned.err
  /\ pc' = "calculated"
  /\ UNCHANGED <<input, verrs, text, parsed, compare, accepted, loop, model>>

Next ==
  \/ Validate
  \/ CalculateByMethod
  \/ \E c \in {MethodArbitrage, MethodKelly, MethodProportional} : CalculateDirect(c)
  \/ CalculateValidated

Spec == Init /\ [][Next]_vars

(***************************************************************************)
(* The validator on its own, on every kind of input: odds below the floor, *)
(* zero, negative or NaN, stakes and probabilities out of range or NaN.    *)
(* The validation is followed by the rendering of what it found.           *)
(***************************************************************************)
ValidatorOdds == <<NaN, -200, 0, 50, 100, 101, 200, 250>>
ValidatorStakes == <<NaN, -1000, 0, 1000>>
ValidatorProbs == <<NaN, -50, 0, 30, 50, 70, 100, 200>>

ValidatorInit ==
  /\ \E m \in Methods :
       \E a, b \in DOMAIN ValidatorOdds :
         \E t \in DOMAIN ValidatorStakes :
           \E p, q \in DOMAIN ValidatorProbs :
             input = [Method |-> m,
                      OddsA |-> ValidatorOdds[a], OddsB |-> ValidatorOdds[b],
                      TotalStake |-> ValidatorStakes[t],
                      ProbA |-> ValidatorProbs[p], ProbB |-> ValidatorProbs[q]]
  /\ pc = "start"
  /\ calc = Nil
  /\ result = Nil
  /\ err = Nil
  /\ verrs = Nil
  /\ text = <<>>
  /\ parsed = Nil
  /\ compare = FALSE
  /\ accepted = Nil
  /\ loop = 0
  /\ model = Nil

\* ValidationError{Errors: verrs}.Error()
ErrorCall ==
  /\ pc = "validated"
  /\ err' = Error(verrs)
  /\ pc' = "reported"
  /\ UNCHANGED <<input, calc, result, verrs, text, parsed, compare, accepted, loop, model>>

ValidatorNext == Validate \/ ErrorCall

ValidatorSpec == ValidatorInit /\ [][ValidatorNext]_vars

(***************************************************************************)
(* The parser on its own: a text is given, then ParseOdds is called on it. *)
(***************************************************************************)
ParserInit ==
  /\ text \in Texts
  /\ parsed = Nil
  /\ pc = "text"
  /\ input = Nil
  /\ calc = Nil
  /\ result = Nil
  /\ err = Nil
  /\ verrs = Nil
  /\ compare = FALSE
  /\ accepted = Nil
  /\ loop = 0
  /\ model = Nil

\* parser.ParseOdds(text)
ParseOddsCall ==
  /\ pc = "text"
  /\ parsed' = ParseOdds(text)
  /\ pc' = "parsed"
  /\ UNCHANGED <<input, calc, result, err, verrs, text, compare, accepted, loop, model>>

ParserNext == ParseOddsCall

ParserSpec == ParserInit /\ [][ParserNext]_vars

(***************************************************************************)
(* The command line: runCLI builds the input from parsed odds (>= 1.0), a  *)
(* positive total and one of the three methods, validates it, and either   *)
(* calculates once or, with --compare, runs the loop of runComparison.     *)
(* accepted records the input as ValidateCalculationInput accepted it.     *)
(***************************************************************************)
CliInputs ==
  [Method : {MethodArbitrage, MethodKelly, MethodProportional},
   OddsA : {o \in OddsSet : o >= 100}, OddsB : {o \in OddsSet : o >= 100},
   TotalStake : StakeSet, ProbA : ProbSet, ProbB : ProbSet]

CliInit ==
  /\ input \in CliInputs
  /\ compare \in BOOLEAN
  /\ pc = "start"
  /\ calc = Nil
  /\ result = Nil
  /\ err = Nil
  /\ verrs = Nil
  /\ text = <<>>
  /\ parsed = Nil
  /\ accepted = Nil
  /\ loop = 0
  /\ model = Nil

\* runCLI: validator.ValidateCalculationInput(input), os.Exit(1) on an error
RunCLIValidate ==
  /\ pc = "start"
  /\ LET errors == ValidateCalculationInput(input)
     IN /\ verrs' = errors
        /\ IF errors = <<>>
           THEN pc' = "validated" /\ accepted' = input
           ELSE pc' = "exit" /\ accepted' = accepted
  /\ UNCHANGED <<input, calc, result, err, text, parsed, compare, loop, model>>

\* runCLI without --compare: NewCalculator(input.Method).Calculate(input)
RunCLICalculate ==
  /\ pc = "validated"
  /\ ~compare
  /\ calc' = NewCalculator(input.Method)
  /\ LET returned == Calculate(NewCalculator(input.Method), input)
     IN result' = returned.result /\ err' = returned.err
  /\ pc' = "calculated"
  /\ UNCHANGED <<input, verrs, text, parsed, compare, accepted, loop, model>>

\* the methods slice of runComparison
ComparisonMethods == <<MethodArbitrage, MethodKelly, MethodProportional>>

\* mutant: the assignment also clears the total stake
SetMethod_AndTotal(in, method) ==
  [in EXCEPT !.Method = method, !.TotalStake = 0]

\* input.Method = method
SetMethod(in, method) == [in EXCEPT !.Method = method]

\* one iteration of the loop of runComparison
RunComparisonStep ==
  /\ compare
  /\ pc \in {"validated", "calculated", "skipped"}
  /\ loop < Len(ComparisonMethods)
  /\ LET method == ComparisonMethods[loop + 1]
         in == SetMethod(input, method)
     IN /\ input' = in
        /\ IF method = MethodKelly /\ (in.ProbA = 0 \/ in.ProbB = 0)
           THEN /\ pc' = "skipped"
                /\ UNCHANGED <<calc, result, err>>
           ELSE /\ calc' = NewCalculator(method)
                /\ LET returned == Calculate(NewCalculator(method), in)
                   IN result' = returned.result /\ err' = returned.err
                /\ pc' = "calculated"
  /\ loop' = loop + 1
  /\ UNCHANGED <<verrs, text, parsed, compare, accepted, model>>

CliNext == RunCLIValidate \/ RunCLICalculate \/ RunComparisonStep

CliSpec == CliInit /\ [][CliNext]_vars

(***************************************************************************)
(* The terminal interface: the Model of package ui and its key handler.    *)
(* A field's text is held as a number: 0 the empty text, -1 a text the     *)
(* field's validator rejects, a positive number the value an accepted text *)
(* stands for (odds in hundredths, total in thousandths, probabilities in  *)
(* hundredths, 1 for a name).  m.result and m.err are result and err.      *)
(***************************************************************************)
fieldOddsA == 0
fieldOddsB == 1
fieldTotal == 2
fieldNameA == 3
fieldNameB == 4
fieldProbA == 5
fieldProbB == 6
fieldCount == 7

Fields == 0..(fieldCount - 1)

\* the texts a field can hold while it is edited
FieldTexts ==
  [i \in Fields |->
     IF i = fieldOddsA THEN {0, -1, 250}
     ELSE IF i = fieldOddsB THEN {0, -1, 300}
     ELSE IF i = fieldTotal THEN {0, -1, 1000000}
     ELSE IF i = fieldProbA THEN {0, 50}
     ELSE IF i = fieldProbB THEN {0, 90}
     ELSE {0, 1}]

\* the keys of handleKeypress; "x" is any other printable character
Keys ==
  {"ctrl+c", "q", "tab", "shift+tab", "enter", "m", "c", "r", "?", "esc",
   "x", "backspace"}

NewModel ==
  [activeField |-> fieldOddsA,
   method |-> MethodArbitrage,
   showHelp |-> FALSE,
   compareMode |-> FALSE,
   focused |-> [i \in Fields |-> i = fieldOddsA],
   value |-> [i \in Fields |-> IF i \in {fieldNameA, fieldNameB} THEN 1 ELSE 0],
   quit |-> FALSE]

\* the field getInputField(idx) returns
getInputField(idx) == IF idx \in Fields THEN idx ELSE fieldOddsA

\* ValidatedInput.IsValid: a non-empty text without a validation error
IsValid(m, i) == m.value[i] > 0

\* mutant: the other fields are not blurred
focusField_NoBlur(m, idx) ==
  [m EXCEPT !.activeField = idx, !.focused[getInputField(idx)] = TRUE]

focusField(m, idx) ==
  [m EXCEPT !.activeField = idx,
            !.focused = [i \in Fields |-> i = getInputField(idx)]]

nextField(m) ==
  LET next == m.activeField + 1
      skipped == IF m.method # MethodKelly /\ next \in {fieldProbA, fieldProbB}
                 THEN fieldOddsA ELSE next
  IN focusField(m, IF skipped >= fieldCount THEN fieldOddsA ELSE skipped)

prevField(m) ==
  LET prev == m.activeField - 1
      wrapped == IF prev < 0
                 THEN (IF m.method = MethodKelly THEN fieldProbB ELSE fieldNameB)
                 ELSE prev
  IN focusField(m, IF m.method # MethodKelly /\ wrapped \in {fieldProbA, fieldProbB}
                   THEN fieldNameB ELSE wrapped)

\* fmt.Sscanf(text, "%f", &prob) into a prob that starts at 0
ScannedProbability(v) == IF v > 0 THEN v ELSE 0

\* Model.calculate: what it leaves in m.result and m.err
calculate(m) ==
  IF ~IsValid(m, fieldOddsA) \/ ~IsValid(m, fieldOddsB) \/ ~IsValid(m, fieldTotal)
  THEN [result |-> Nil, err |-> Nil]
  ELSE
    LET probA == IF m.method = MethodKelly
                 THEN ScannedProbability(m.value[fieldProbA]) ELSE 0
        probB == IF m.method = MethodKelly
                 THEN ScannedProbability(m.value[fieldProbB]) ELSE 0
    IN IF m.method = MethodKelly /\ (probA = 0 \/ probB = 0)
       THEN [result |-> Nil,
             err |-> "Kelly method requires probability estimates"]
       ELSE Calculate(NewCalculator(m.method),
                      [Method |-> m.method,
                       OddsA |-> m.value[fieldOddsA],
                       OddsB |-> m.value[fieldOddsB],
                       TotalStake |-> m.value[fieldTotal],
                       ProbA |-> probA, ProbB |-> probB])

\* what a handler does to m.result and m.err besides changing the model:
\* it leaves them ("kept"), clears them ("cleared"), or ends with a call of
\* calculate on the changed model ("calculated")
Handled(m, effect) == [m |-> m, effect |-> effect]

\* Model.cycleMethod: the method changes, then calculate runs
cycleMethod(m) ==
  Handled([m EXCEPT !.method =
             IF m.method = MethodArbitrage THEN MethodKelly
             ELSE IF m.method = MethodKelly THEN MethodProportional
             ELSE MethodArbitrage],
          "calculated")

\* Model.reset; it leaves the method as it is
reset(m) ==
  Handled(focusField([m EXCEPT !.value = NewModel.value], fieldOddsA),
          "cleared")

isTypingLetter(m) ==
  m.focused[getInputField(m.activeField)]
    /\ m.value[getInputField(m.activeField)] # 0

\* the text v a field can hold after it has received the key: a field that
\* is not focused ignores it, a character leaves some non-empty text, a
\* backspace some text or none, and any other key the text as it was
Edited(m, key, v) ==
  LET f == getInputField(m.activeField)
  IN IF ~m.focused[f] \/ key \in {"esc", "tab", "shift+tab", "enter", "ctrl+c"}
     THEN v = m.value[f]
     ELSE IF key = "backspace"
     THEN IF m.value[f] = 0 THEN v = 0 ELSE v \in FieldTexts[f]
     ELSE v \in FieldTexts[f] \ {0}

\* updateInputAndRecalculate: the active field takes the key, then
\* calculate runs
updateInputAndRecalculate(m, v) ==
  Handled([m EXCEPT !.value[getInputField(m.activeField)] = v], "calculated")

\* Model.handleKeypress: the model returned for the key, or Quit
handleKeypress(m, key, v) ==
  IF m.showHelp
  THEN Handled([m EXCEPT !.showHelp = (key \notin {"?", "esc", "q", "enter"})],
               "kept")
  ELSE IF key = "ctrl+c" THEN Handled([m EXCEPT !.quit = TRUE], "kept")
  ELSE IF key = "q"
  THEN IF m.value[getInputField(m.activeField)] = 0
          \/ ~m.focused[getInputField(m.activeField)]
       THEN Handled([m EXCEPT !.quit = TRUE], "kept")
       ELSE updateInputAndRecalculate(m, v)
  ELSE IF key = "tab" THEN Handled(nextField(m), "kept")
  ELSE IF key = "shift+tab" THEN Handled(prevField(m), "kept")
  ELSE IF key = "enter" THEN Handled(m, "calculated")
  ELSE IF key = "m"
  THEN IF ~isTypingLetter(m) THEN cycleMethod(m)
       ELSE updateInputAndRecalculate(m, v)
  ELSE IF key = "c"
  THEN IF ~isTypingLetter(m)
       THEN Handled([m EXCEPT !.compareMode = ~m.compareMode], "kept")
       ELSE updateInputAndRecalculate(m, v)
  ELSE IF key = "r"
  THEN IF ~isTypingLetter(m) THEN reset(m)
       ELSE updateInputAndRecalculate(m, v)
  ELSE IF key = "?" THEN Handled([m EXCEPT !.showHelp = TRUE], "kept")
  ELSE updateInputAndRecalculate(m, v)

TuiInit ==
  /\ model = NewModel
  /\ pc = "tui"
  /\ input = Nil
  /\ calc = Nil
  /\ result = Nil
  /\ err = Nil
  /\ verrs = Nil
  /\ text = <<>>
  /\ parsed = Nil
  /\ compare = FALSE
  /\ accepted = Nil
  /\ loop = 0

\* `return m, m.nextField()` and `return m, m.prevField()` read m and call a
\* method that writes to m in one statement, and Go leaves the order of the
\* two open: the model returned is m after the call or m before it
ReturnedModels(m, key, after) ==
  IF ~m.showHelp /\ key \in {"tab", "shift+tab"} THEN {after, m} ELSE {after}

\* Update on a tea.KeyMsg; the program ends once Quit has been returned
Keypress(key) ==
  /\ pc = "tui"
  /\ ~model.quit
  /\ \E v \in FieldTexts[getInputField(model.activeField)] :
       /\ Edited(model, key, v)
       /\ LET handled == handleKeypress(model, key, v)
          IN /\ model' \in ReturnedModels(model, key, handled.m)
             /\ IF handled.effect = "calculated"
                THEN LET returned == calculate(handled.m)
                     IN result' = returned.result /\ err' = returned.err
                ELSE IF handled.effect = "cleared"
                THEN result' = Nil /\ err' = Nil
                ELSE UNCHANGED <<result, err>>
  /\ UNCHANGED <<input, pc, calc, verrs, text, parsed, compare, accepted, loop>>

TuiNext == \E key \in Keys : Keypress(key)

TuiSpec == TuiInit /\ [][TuiNext]_vars

(***************************************************************************)
(* Properties of the calculation core.                                     *)
(***************************************************************************)
\* the strategy c has returned a result for the input
Calculated(c) == pc = "calculated" /\ calc = c /\ IsNil(err)

\* oddsA >= 1.01, oddsB >= 1.01, totalStake > 0
ValidOddsAndStake ==
  input.OddsA >= MinOdds /\ input.OddsB >= MinOdds /\ input.TotalStake > 0

\* unrounded payouts and profits of the result's stakes, in ten-thousandths
PayoutA == result.OptionA.Stake * input.OddsA
PayoutB == result.OptionB.Stake * input.OddsB
StakeSum == result.OptionA.Stake + result.OptionB.Stake

\* C1: on valid input the arbitrage payout is the same whichever option
\* wins, up to the rounding of the two stakes (0.005 * odds each)
C1_EqualPayout ==
  (Calculated(MethodArbitrage) /\ ValidOddsAndStake)
    => 2 * Abs(PayoutA - PayoutB) <= input.OddsA + input.OddsB

\* C2: an arbitrage input the validator accepts yields a profit whichever
\* option wins, and MinProfit > 0 whenever GuaranteedProfit is set
C2_ProfitWhicheverWins ==
  (Calculated(MethodArbitrage) /\ input.Method = MethodArbitrage
   /\ ValidateCalculationInput(input) = <<>>)
    => /\ result.OptionA.ProfitIfWins > 0
       /\ result.OptionB.ProfitIfWins > 0
       /\ (result.Summary.GuaranteedProfit => result.Summary.MinProfit > 0)

\* the Kelly calculations C3 is about: odds > 1, totalStake > 0
KellyReturned ==
  /\ Calculated(MethodKelly)
  /\ input.OddsA > 100 /\ input.OddsB > 100 /\ input.TotalStake > 0

\* C3 as stated: the Kelly stakes are >= 0 and never sum above TotalStake
C3_WithinBankroll ==
  KellyReturned
    => /\ 10 * StakeSum <= input.TotalStake
       /\ result.OptionA.Stake >= 0 /\ result.OptionB.Stake >= 0

\* C3 amended: the Kelly stakes are >= 0 and sum to at most TotalStake plus
\* the two roundings (0.01)
C3_WithinBankrollRounded ==
  KellyReturned
    => /\ 10 * StakeSum <= input.TotalStake + 10
       /\ result.OptionA.Stake >= 0 /\ result.OptionB.Stake >= 0

\* a Kelly result of the scale-down branch (probabilities summing above 1)
C3_Witness ==
  /\ KellyReturned
  /\ input.ProbA + input.ProbB > 100
  /\ RawExceedsTotal(input.TotalStake, KellyFraction(input.ProbA, input.OddsA),
                     KellyFraction(input.ProbB, input.OddsB))
  /\ StakeSum > 0

C6_WholeStake ==
  ((Calculated(MethodArbitrage) \/ Calculated(MethodProportional))
   /\ ValidOddsAndStake)
    => Abs(10 * StakeSum - input.TotalStake) <= 10

\* an arbitrage result on unequal odds whose rounded stakes do not add up
\* to the stake exactly
C6_Witness ==
  /\ Calculated(MethodArbitrage) /\ ValidOddsAndStake
  /\ input.OddsA # input.OddsB
  /\ 10 * StakeSum # input.TotalStake

\* C7: every strategy sets GuaranteedProfit exactly when
\* 1/oddsA + 1/oddsB < 1.0
C7_GuaranteedProfitFlag ==
  (pc = "calculated" /\ IsNil(err) /\ input.OddsA > 0 /\ input.OddsB > 0)
    => (result.Summary.GuaranteedProfit
          <=> 100 * (input.OddsA + input.OddsB) < input.OddsA * input.OddsB)

\* a Kelly result on odds that leave an arbitrage
C7_Witness ==
  /\ Calculated(MethodKelly) /\ ValidOddsAndStake
  /\ 100 * (input.OddsA + input.OddsB) < input.OddsA * input.OddsB
  /\ result.Summary.GuaranteedProfit

\* C8: Kelly with a zero probability returns an error and no result
C8_MissingProbabilityIsError ==
  (pc = "calculated" /\ calc = MethodKelly
   /\ (input.ProbA = 0 \/ input.ProbB = 0))
    => ~IsNil(err) /\ IsNil(result)

\* Kelly was called with only one of the two probabilities
C8_Witness ==
  /\ pc = "calculated" /\ calc = MethodKelly
  /\ input.ProbA # 0 /\ input.ProbB = 0
  /\ ~IsNil(err)

\* max(0, prob*odds - 1), in ten-thousandths
Edge(prob, odds) ==
  IF prob * odds > 10000 THEN prob * odds - 10000 ELSE 0

\* totalStake * max(0, (prob*odds - 1)/(odds - 1)) rounded to cents
KellyFormulaStake(total, prob, odds) ==
  RoundHalfAway(total, Edge(prob, odds), 1000 * (odds - 100))

\* the raw Kelly fractions do not exceed the bankroll: kellyA + kellyB <= 1
RawWithinBankroll ==
  Edge(input.ProbA, input.OddsA) * (input.OddsB - 100)
    + Edge(input.ProbB, input.OddsB) * (input.OddsA - 100)
  <= 100 * (input.OddsA - 100) * (input.OddsB - 100)

\* C9: when the raw fractions do not exceed the bankroll each Kelly stake
\* is the rounded formula value, and an option without an edge gets 0
C9_KellyFormula ==
  (KellyReturned /\ RawWithinBankroll)
    => /\ result.OptionA.Stake
            = KellyFormulaStake(input.TotalStake, input.ProbA, input.OddsA)
       /\ result.OptionB.Stake
            = KellyFormulaStake(input.TotalStake, input.ProbB, input.OddsB)
       /\ (input.ProbA * input.OddsA <= 10000 => result.OptionA.Stake = 0)
       /\ (input.ProbB * input.OddsB <= 10000 => result.OptionB.Stake = 0)

\* a Kelly result with an edge on A only
C9_Witness ==
  /\ KellyReturned /\ RawWithinBankroll
  /\ input.ProbB * input.OddsB <= 10000
  /\ result.OptionA.Stake > 0 /\ result.OptionB.Stake = 0

\* probA*profitA + probB*profitB + residual, in millionths, as a wide sum
C10_Weighted(residual) ==
  WideAdd(WideAdd(WideMul(PayoutA - 10 * input.TotalStake, input.ProbA),
                  WideMul(PayoutB - 10 * input.TotalStake, input.ProbB)),
          residual)

\* C10: the Kelly ExpectedValue is the probability-weighted profit, less
\* (1 - probA - probB) * totalStake when the probabilities sum below 1,
\* rounded to cents
C10_KellyExpectedValue ==
  Calculated(MethodKelly)
    => result.Summary.ExpectedValue
         = WideRound(C10_Weighted(
             IF input.ProbA + input.ProbB < 100
             THEN WideMul(10 * input.TotalStake,
                          -(100 - input.ProbA - input.ProbB))
             ELSE <<0, 0>>))

\* a Kelly result whose probabilities leave a "neither wins" mass
C10_Witness ==
  /\ Calculated(MethodKelly) /\ ValidOddsAndStake
  /\ input.ProbA + input.ProbB < 100
  /\ result.OptionA.Stake > 0

\* C11 is about these Kelly calculations: valid odds and stake, both
\* probabilities strictly inside (0,1) and summing to at most 1
KellyValidInput ==
  /\ Calculated(MethodKelly) /\ ValidOddsAndStake
  /\ input.ProbA > 0 /\ input.ProbA < 100
  /\ input.ProbB > 0 /\ input.ProbB < 100
  /\ input.ProbA + input.ProbB <= 100

\* C11: a Kelly calculation with an edge on at least one option
\* (prob*odds > 1) has a positive ExpectedValue
C11_EdgeMeansPositiveEV ==
  (KellyValidInput
   /\ (input.ProbA * input.OddsA > 10000 \/ input.ProbB * input.OddsB > 10000))
    => result.Summary.ExpectedValue > 0

MinF(x, y) == IF LeqF(x, y) THEN x ELSE y
MaxF(x, y) == IF LeqF(x, y) THEN y ELSE x

\* the Summary's profit and ROI range is ordered and is the range of the
\* two Options of the same result
SummaryIsRangeOfOptions ==
  /\ LeqF(result.Summary.MinProfit, result.Summary.MaxProfit)
  /\ LeqF(result.Summary.MinROI, result.Summary.MaxROI)
  /\ EqF(result.Summary.MinProfit,
         MinF(result.OptionA.ProfitIfWins, result.OptionB.ProfitIfWins))
  /\ EqF(result.Summary.MaxProfit,
         MaxF(result.OptionA.ProfitIfWins, result.OptionB.ProfitIfWins))
  /\ EqF(result.Summary.MinROI, MinF(result.OptionA.ROI, result.OptionB.ROI))
  /\ EqF(result.Summary.MaxROI, MaxF(result.OptionA.ROI, result.OptionB.ROI))

ArbitrageOnUnitOdds ==
  calc = MethodArbitrage /\ input.OddsA = 100 /\ input.OddsB = 100

C19_UnknownDefaultsToArbitrage ==
  (pc = "calculated" /\ input.Method \notin {MethodKelly, MethodProportional})
    => /\ NewCalculator(input.Method) = MethodArbitrage
       /\ calc = NewCalculator(input.Method)
            => /\ IsNil(err)
               /\ ~IsNil(result) /\ result.Method = MethodArbitrage

\* the method "unknown" has been calculated by the arbitrage strategy
C19_Witness ==
  /\ Calculated(MethodArbitrage) /\ ValidOddsAndStake
  /\ input.Method = "unknown"
  /\ result.Method = MethodArbitrage
  /\ result.OptionA.Stake > 0

(***************************************************************************)
(* Properties of the odds parser.                                          *)
(***************************************************************************)
\* ParseOdds has returned without error
ParsedOk == pc = "parsed" /\ IsNil(parsed.err)

\* odds >= 1.0 in float64: false for NaN
AtLeastOne(odds) ==
  IF IsNum(odds) THEN ~LtR(odds, <<1, 1>>) ELSE ToString(odds) = ToString(PosInf)

\* C13: whenever ParseOdds returns without error, the odds are >= 1.0
C13_ParsedAtLeastOne == ParsedOk => AtLeastOne(parsed.odds)

\* the text without the blanks at its two ends
Trimmed == TrimSpace(text)

\* the format of the trimmed text by the precedence: '%' at the end, then
\* a '/' anywhere, then a sign in front, else decimal
FormatOf(s) ==
  IF s[Len(s)] = "%" THEN "percentage"
  ELSE IF \E i \in 1..Len(s) : s[i] = "/" THEN "fractional"
  ELSE IF s[1] \in {"+", "-"} THEN "american"
  ELSE "decimal"

\* what the parser of one format returns on the text
ParsedAs(format, s) ==
  IF format = "percentage" THEN parsePercentage(s)
  ELSE IF format = "fractional" THEN parseFractional(s)
  ELSE IF format = "american" THEN parseAmerican(s)
  ELSE parseDecimal(s)

\* C14: ParseOdds returns what the parser of the first matching format
\* returns on the trimmed text, and of no other format
C14_FormatPrecedence ==
  (pc = "parsed" /\ Trimmed # <<>>)
    => parsed = ParsedAs(FormatOf(Trimmed), Trimmed)

\* a signed text with a '/' has been parsed as a fraction: "+1/5" is 1.2
C14_Witness ==
  /\ pc = "parsed"
  /\ HasPrefix(Trimmed, "+") /\ Contains(Trimmed, "/")
  /\ IsNil(parsed.err)
  /\ parseAmerican(Trimmed).err = "invalid American odds"

\* a plain unsigned numeral: digits with at most one point, at least one digit
Numeral(s) ==
  /\ \E i \in 1..Len(s) : s[i] \in DigitChars
  /\ \A i \in 1..Len(s) : s[i] \in DigitChars \cup {"."}
  /\ Cardinality({i \in 1..Len(s) : s[i] = "."}) <= 1

\* the number a numeral denotes, as a ratio
ValueOf(s) == <<Mantissa(s), Pow10(FractionDigits(s))>>

Positive(s) == Numeral(s) /\ ValueOf(s)[1] > 0

\* ParseOdds returned the ratio n/d without error
Returned(n, d) ==
  IsNil(parsed.err) /\ IsNum(parsed.odds) /\ EqR(parsed.odds, <<n, d>>)

Before(s, i) == SubSeq(s, 1, i - 1)
After(s, i) == SubSeq(s, i + 1, Len(s))

\* C15: on well-formed text ParseOdds returns the reference conversion:
\* decimal d >= 1.0 gives d, 'p%' with 0 < p <= 100 gives 100/p, 'n/d' with
\* n >= 0 and d > 0 gives n/d + 1, '+a' gives a/100 + 1, '-a' gives 100/a + 1
C15_ReferenceConversion ==
  pc = "parsed" =>
    LET t == Trimmed
        n == Len(t)
    IN /\ (Numeral(t) /\ ~LtR(ValueOf(t), <<1, 1>>))
            => Returned(ValueOf(t)[1], ValueOf(t)[2])
       /\ (n > 1 /\ t[n] = "%" /\ Positive(Before(t, n))
           /\ ~LtR(<<100, 1>>, ValueOf(Before(t, n))))
            => Returned(100 * ValueOf(Before(t, n))[2], ValueOf(Before(t, n))[1])
       /\ \A i \in 1..n :
            (t[i] = "/" /\ Numeral(Before(t, i)) /\ Positive(After(t, i)))
              => Returned(ValueOf(Before(t, i))[1] * ValueOf(After(t, i))[2]
                            + ValueOf(Before(t, i))[2] * ValueOf(After(t, i))[1],
                          ValueOf(Before(t, i))[2] * ValueOf(After(t, i))[1])
       /\ (n > 1 /\ t[1] = "+" /\ Positive(After(t, 1)))
            => Returned(ValueOf(After(t, 1))[1] + 100 * ValueOf(After(t, 1))[2],
                        100 * ValueOf(After(t, 1))[2])
       /\ (n > 1 /\ t[1] = "-" /\ Positive(After(t, 1)))
            => Returned(100 * ValueOf(After(t, 1))[2] + ValueOf(After(t, 1))[1],
                        ValueOf(After(t, 1))[1])

\* "-150" has been parsed to 100/150 + 1 = 5/3
C15_Witness ==
  /\ pc = "parsed"
  /\ text = <<"-", "1", "5", "0">>
  /\ Returned(5, 3)

\* ParseOdds returned an error together with the value 0
Rejected == ~IsNil(parsed.err) /\ ToString(parsed.odds) = ToString(Zero)

\* the text is no number, or the number it denotes is negative, zero,
\* below 1.0, above 100
NotNumeric(s) == ~ParseFloat(s).ok
IsNegative(s) ==
  LET v == ParseFloat(s).val
  IN ParseFloat(s).ok
     /\ (IF IsNum(v) THEN v[1] < 0 ELSE ToString(v) = ToString(NegInf))
IsZero(s) ==
  ParseFloat(s).ok /\ IsNum(ParseFloat(s).val) /\ ParseFloat(s).val[1] = 0
BelowOne(s) ==
  IsNegative(s)
  \/ (ParseFloat(s).ok /\ IsNum(ParseFloat(s).val)
      /\ LtR(ParseFloat(s).val, <<1, 1>>))
AboveHundred(s) ==
  LET v == ParseFloat(s).val
  IN ParseFloat(s).ok
     /\ (IF IsNum(v) THEN LtR(<<100, 1>>, v)
         ELSE ToString(v) = ToString(PosInf))

\* the positions of the '/' in a text
Slashes(s) == {i \in 1..Len(s) : s[i] = "/"}

\* the texts C16 lists, by the format the text takes
MustBeRejected(t) ==
  \/ t = <<>>
  \/ /\ t # <<>> /\ FormatOf(t) = "decimal"
     /\ (NotNumeric(t) \/ BelowOne(t))
  \/ /\ t # <<>> /\ FormatOf(t) = "american"
     /\ (NotNumeric(t) \/ IsZero(t))
  \/ /\ t # <<>> /\ FormatOf(t) = "percentage"
     /\ LET p == TrimSpace(Before(t, Len(t)))
        IN NotNumeric(p) \/ IsNegative(p) \/ IsZero(p) \/ AboveHundred(p)
  \/ /\ t # <<>> /\ FormatOf(t) = "fractional"
     /\ \/ Cardinality(Slashes(t)) # 1
        \/ \E i \in Slashes(t) :
             LET numerator == TrimSpace(Before(t, i))
                 denominator == TrimSpace(After(t, i))
             IN \/ NotNumeric(numerator) \/ NotNumeric(denominator)
                \/ IsZero(denominator)
                \/ IsNegative(numerator) \/ IsNegative(denominator)

\* C16: ParseOdds returns an error and the value 0 for blank text, a
\* non-numeric component, a decimal below 1.0, a percentage <= 0 or > 100,
\* a fraction not of exactly two parts, a zero denominator, a negative
\* numerator or denominator, and American zero
C16_RejectedWithZero ==
  (pc = "parsed" /\ MustBeRejected(Trimmed)) => Rejected

\* "1/-5" has been rejected for its negative denominator
C16_Witness ==
  /\ pc = "parsed"
  /\ text = <<"1", "/", "-", "5">>
  /\ parsed.err = "fractional odds must be positive"
  /\ Rejected

(***************************************************************************)
(* Properties of the validator.                                            *)
(***************************************************************************)
Validated == pc \in {"validated", "reported"}

\* the conditions under which C17 says the input is valid
ValidInput ==
  /\ GeqF(input.OddsA, MinOdds) /\ GeqF(input.OddsB, MinOdds)
  /\ GtF(input.TotalStake, 0)
  /\ input.Method \in {MethodArbitrage, MethodKelly, MethodProportional}
  /\ input.Method = MethodKelly
       => /\ GtF(input.ProbA, 0) /\ LtF(input.ProbA, 100)
          /\ GtF(input.ProbB, 0) /\ LtF(input.ProbB, 100)
          /\ input.ProbA + input.ProbB <= 100
  /\ input.Method = MethodArbitrage
       => 100 * (input.OddsA + input.OddsB) < input.OddsA * input.OddsB

\* C17: ValidateCalculationInput returns nil exactly when the odds are
\* >= 1.01, the stake is > 0, the method is known, for Kelly both
\* probabilities are in (0,1) and sum to at most 1, and for arbitrage
\* 1/oddsA + 1/oddsB < 1
C17_NilExactlyWhenValid ==
  Validated => (verrs = <<>> <=> ValidInput)

\* how often a message is in the returned list
Count(msg) == Cardinality({i \in 1..Len(verrs) : verrs[i] = msg})

\* 1 for a violated condition, 0 otherwise
Due(cond) == IF cond THEN 1 ELSE 0

IsKelly == input.Method = MethodKelly

\* p + q > 1.0 and 1/a + 1/b >= 1.0 in float64 (1/0 is +Inf)
SumAboveOne(p, q) == IsNum(p) /\ IsNum(q) /\ p + q > 100
CombinedAtLeastOne(a, b) ==
  IF ~IsNum(a) \/ ~IsNum(b) THEN FALSE
  ELSE IF a = 0 \/ b = 0 THEN TRUE
  ELSE IF a * b > 0 THEN 100 * (a + b) >= a * b
  ELSE 100 * (a + b) <= a * b

\* the six checks C18 and its amendment state alike
IndependentChecks ==
  /\ Count("Option A: odds must be >= 1.01")
       = Due(LtF(input.OddsA, MinOdds))
  /\ Count("Option B: odds must be >= 1.01")
       = Due(LtF(input.OddsB, MinOdds))
  /\ Count("total stake must be positive") = Due(LeqF(input.TotalStake, 0))
  /\ Count("Kelly method requires probability estimates for both options")
       = Due(IsKelly /\ (EqF(input.ProbA, 0) \/ EqF(input.ProbB, 0)))
  /\ Count("Option A probability: probability must be between 0 and 1 (exclusive)")
       = Due(IsKelly /\ ~EqF(input.ProbA, 0)
             /\ (LeqF(input.ProbA, 0) \/ GeqF(input.ProbA, 100)))
  /\ Count("Option B probability: probability must be between 0 and 1 (exclusive)")
       = Due(IsKelly /\ ~EqF(input.ProbB, 0)
             /\ (LeqF(input.ProbB, 0) \/ GeqF(input.ProbB, 100)))
  /\ Count("invalid calculation method")
       = Due(input.Method \notin {MethodArbitrage, MethodKelly, MethodProportional})

SumWarning == "warning: probabilities sum to > 1.0"
ArbitrageWarning ==
  "warning: combined implied probability >= 100% - no guaranteed profit"

\* C18 as stated: one error for each violated condition, whatever the other
\* conditions are; the sum condition is "both probabilities non-zero and
\* summing above 1", the arbitrage condition "1/oddsA + 1/oddsB >= 1"
C18_EveryViolationReported ==
  Validated
    => /\ IndependentChecks
       /\ Count(SumWarning)
            = Due(IsKelly /\ ~EqF(input.ProbA, 0) /\ ~EqF(input.ProbB, 0)
                  /\ SumAboveOne(input.ProbA, input.ProbB))
       /\ Count(ArbitrageWarning)
            = Due(input.Method = MethodArbitrage
                  /\ CombinedAtLeastOne(input.OddsA, input.OddsB))

\* C18 amended: the same, but the sum is checked only when both
\* probabilities are > 0 and the arbitrage condition only when both odds
\* are > 0; the list holds nothing else
C18_EveryCheckedViolationReported ==
  Validated
    => /\ IndependentChecks
       /\ Count(SumWarning)
            = Due(IsKelly /\ GtF(input.ProbA, 0) /\ GtF(input.ProbB, 0)
                  /\ SumAboveOne(input.ProbA, input.ProbB))
       /\ Count(ArbitrageWarning)
            = Due(input.Method = MethodArbitrage
                  /\ GtF(input.OddsA, 0) /\ GtF(input.OddsB, 0)
                  /\ CombinedAtLeastOne(input.OddsA, input.OddsB))
       /\ \A i \in 1..Len(verrs) :
            verrs[i] \in {"Option A: odds must be >= 1.01",
                          "Option B: odds must be >= 1.01",
                          "total stake must be positive",
                          "Kelly method requires probability estimates for both options",
                          "Option A probability: probability must be between 0 and 1 (exclusive)",
                          "Option B probability: probability must be between 0 and 1 (exclusive)",
                          "invalid calculation method",
                          SumWarning, ArbitrageWarning}

\* four checks have failed together on one arbitrage input
C18_Witness ==
  /\ Validated
  /\ input.Method = MethodArbitrage
  /\ Len(verrs) = 4
  /\ Count(ArbitrageWarning) = 1

\* the first k errors, each on a line of its own after its number
RECURSIVE NumberedUpTo(_)
NumberedUpTo(k) ==
  IF k = 0 THEN ""
  ELSE NumberedUpTo(k - 1) \o "  " \o ToString(k) \o ". " \o verrs[k] \o "\n"

\* C20: Error() is the empty string for no errors, the message itself for
\* one error, and for n > 1 errors the header "multiple validation errors:"
\* followed by all the errors in insertion order, numbered 1..n, one a line
C20_RendersAllErrors ==
  pc = "reported"
    => /\ Len(verrs) = 0 => err = ""
       /\ Len(verrs) = 1 => err = verrs[1]
       /\ Len(verrs) > 1
            => err = "multiple validation errors:\n" \o NumberedUpTo(Len(verrs))

\* three errors have been rendered under the header
C20_Witness ==
  /\ pc = "reported"
  /\ Len(verrs) = 3
  /\ err = "multiple validation errors:\n"
             \o "  1. " \o verrs[1] \o "\n"
             \o "  2. " \o verrs[2] \o "\n"
             \o "  3. " \o verrs[3] \o "\n"

(***************************************************************************)
(* Properties of the rounding of the outputs.                              *)
(***************************************************************************)
\* a strategy has returned a result for valid odds and a positive stake
ResultOnValid ==
  pc = "calculated" /\ IsNil(err) /\ ~IsNil(result) /\ ValidOddsAndStake

\* the quotient r[1]/r[2] is a whole number of ten-thousandths
FourDecimals(r) == (10000 * r[1]) % r[2] = 0

\* a 2- or 4-decimal output is held as its whole count of units
WholeUnits(x) == x \in Int

\* C21: every monetary output is a multiple of 0.01 and every probability
\* or ROI output, Option.ImpliedProbability included, a multiple of 0.0001
C21_OutputsRounded ==
  ResultOnValid
    => /\ \A o \in {result.OptionA, result.OptionB} :
            /\ WholeUnits(o.Stake)
            /\ WholeUnits(o.ReturnIfWins)
            /\ WholeUnits(o.ProfitIfWins)
            /\ WholeUnits(o.ROI)
            /\ FourDecimals(o.ImpliedProbability)
       /\ WholeUnits(result.Summary.MinProfit)
       /\ WholeUnits(result.Summary.MaxProfit)
       /\ WholeUnits(result.Summary.ExpectedValue)
       /\ WholeUnits(result.Summary.MinROI)
       /\ WholeUnits(result.Summary.MaxROI)
       /\ WholeUnits(result.Summary.MarketEfficiency)

\* the exact return s*odds of the strategy's unrounded stake s, rounded to
\* cents; for Kelly, of the raw stake of the branch that does not scale
ExactReturn(c, odds, other, prob) ==
  IF c = MethodArbitrage
  THEN RoundHalfAway(input.TotalStake * (other - 100), odds,
                     1000 * (input.OddsA + input.OddsB - 200))
  ELSE IF c = MethodProportional
  THEN RoundHalfAway(input.TotalStake * other, odds,
                     1000 * (input.OddsA + input.OddsB))
  ELSE RoundHalfAway(input.TotalStake, KellyFraction(prob, odds)[1] * odds,
                     100000 * KellyFraction(prob, odds)[2])

\* the results C22 is about: Kelly results are those of the unscaled branch
UnscaledResult ==
  /\ ResultOnValid
  /\ calc = MethodKelly
       => ~RawExceedsTotal(input.TotalStake,
                           KellyFraction(input.ProbA, input.OddsA),
                           KellyFraction(input.ProbB, input.OddsB))

\* C22: ReturnIfWins is round2(s * odds) for the strategy's exact, unrounded
\* stake s, so that no output is derived from a rounded intermediate
C22_RoundedOnlyAtOutput ==
  UnscaledResult
    => /\ result.OptionA.ReturnIfWins
            = ExactReturn(calc, input.OddsA, input.OddsB, input.ProbA)
       /\ result.OptionB.ReturnIfWins
            = ExactReturn(calc, input.OddsB, input.OddsA, input.ProbB)

\* C22 as the code has it: each stake is rounded to cents first, and the
\* return, the profit and the ROI of an option are computed from that rounded
\* stake and rounded once more for the output
C22_DerivedFromRoundedStake ==
  ResultOnValid
    => /\ result.OptionA.ReturnIfWins = RoundHalfAway(1, PayoutA, 100)
       /\ result.OptionB.ReturnIfWins = RoundHalfAway(1, PayoutB, 100)
       /\ result.OptionA.ProfitIfWins
            = RoundHalfAway(1, PayoutA - 10 * input.TotalStake, 100)
       /\ result.OptionB.ProfitIfWins
            = RoundHalfAway(1, PayoutB - 10 * input.TotalStake, 100)
       /\ result.OptionA.ROI
            = RoundHalfAway(1000, PayoutA - 10 * input.TotalStake,
                            input.TotalStake)
       /\ result.OptionB.ROI
            = RoundHalfAway(1000, PayoutB - 10 * input.TotalStake,
                            input.TotalStake)

\* the arbitrage return of the rounded stake differs from the rounded exact
\* return: 995.02 * 1.01 = 1004.9702 against 1000 * 2/2.01 * 1.01 = 1004.9751
C22_Witness ==
  /\ ResultOnValid /\ calc = MethodArbitrage
  /\ input.OddsA = 101 /\ input.OddsB = 300 /\ input.TotalStake = 1000000
  /\ result.OptionA.Stake = 99502
  /\ result.OptionA.ReturnIfWins = 100497
  /\ ExactReturn(calc, input.OddsA, input.OddsB, input.ProbA) = 100498

(***************************************************************************)
(* Properties of the command line.                                         *)
(***************************************************************************)
\* C23: once ValidateCalculationInput has accepted an input, no later step
\* of the run changes any field of it
C23_NeverMutated == ~IsNil(accepted) => input = accepted

\* C23 as the code has it: after validation every field but Method keeps
\* its value; without --compare Method keeps it too, and the --compare loop
\* assigns Method the method of the iteration last entered
C23_OnlyMethodReassigned ==
  ~IsNil(accepted)
    => /\ \A f \in (DOMAIN input) \ {"Method"} : input[f] = accepted[f]
       /\ (~compare \/ loop = 0) => input.Method = accepted.Method
       /\ (compare /\ loop > 0) => input.Method = ComparisonMethods[loop]

\* the loop has run all three methods on an input validated for arbitrage
C23_Witness ==
  /\ compare /\ loop = 3 /\ pc = "calculated"
  /\ ~IsNil(accepted)
  /\ accepted.Method = MethodArbitrage
  /\ input.Method = MethodProportional
  /\ calc = MethodProportional

\* C24: a strategy's Calculate is invoked on an input only after
\* ValidateCalculationInput has accepted that input for that same strategy
C24_ValidatedBeforeCalculate ==
  pc = "calculated"
    => /\ ~IsNil(accepted)
       /\ accepted = input
       /\ calc = NewCalculator(accepted.Method)

(***************************************************************************)
(* Properties of what validation guarantees to the strategies.             *)
(***************************************************************************)
\* ValidateCalculationInput has returned nil for the input
AcceptedInput == Validated /\ verrs = <<>>

\* 1/a + 1/b > 0 in float64, with 1/0 = +Inf and NaN for a NaN operand
TotalWeightPositive(a, b) ==
  IF ~IsNum(a) \/ ~IsNum(b) THEN FALSE
  ELSE IF a = 0 \/ b = 0 THEN TRUE
  ELSE (a + b) * a * b > 0

\* C26: for every input ValidateCalculationInput accepts, the arbitrage
\* denominator oddsA + oddsB - 2, each Kelly denominator odds - 1, the
\* proportional total weight and the ROI divisor totalStake are all > 0
C26_NoZeroDenominator ==
  AcceptedInput
    => /\ GtF(AddF(AddF(input.OddsA, input.OddsB), -200), 0)
       /\ GtF(AddF(input.OddsA, -100), 0)
       /\ GtF(AddF(input.OddsB, -100), 0)
       /\ TotalWeightPositive(input.OddsA, input.OddsB)
       /\ GtF(input.TotalStake, 0)

\* the raw Kelly stake totalStake * kelly of an option, rounded to cents
RawStake(prob, odds) ==
  LET kelly == KellyFraction(prob, odds)
  IN RoundHalfAway(input.TotalStake, kelly[1], 1000 * kelly[2])

\* kellyA + kellyB <= 1, i.e. rawStakeA + rawStakeB <= totalStake
RawWithinTotal ==
  LET kellyA == KellyFraction(input.ProbA, input.OddsA)
      kellyB == KellyFraction(input.ProbB, input.OddsB)
  IN kellyA[1] * kellyB[2] + kellyB[1] * kellyA[2]
       <= 100 * kellyA[2] * kellyB[2]

C28_ProportionalEqualPayout ==
  (Calculated(MethodProportional) /\ ValidOddsAndStake)
    => /\ 2 * Abs(PayoutA - PayoutB) <= input.OddsA + input.OddsB
       /\ 200 * Abs(result.OptionA.ProfitIfWins - result.OptionB.ProfitIfWins)
            <= input.OddsA + input.OddsB + 200

\* a proportional result on unequal odds whose payouts differ by the
\* rounding of the stakes: 545.45 * 2.5 = 1363.625, 454.55 * 3.0 = 1363.65
C28_Witness ==
  /\ Calculated(MethodProportional) /\ ValidOddsAndStake
  /\ input.OddsA = 250 /\ input.OddsB = 300 /\ input.TotalStake = 1000000
  /\ result.OptionA.Stake = 54545 /\ result.OptionB.Stake = 45455
  /\ PayoutA = 13636250 /\ PayoutB = 13636500

(***************************************************************************)
(* Properties of the terminal interface.                                   *)
(***************************************************************************)
\* C25: pressing Ctrl+C quits the program from every reachable state of the
\* interface, the help overlay shown or not
C25_CtrlCQuits ==
  (pc = "tui" /\ ~model.quit)
    => handleKeypress(model, "ctrl+c",
                      model.value[getInputField(model.activeField)]).m.quit

\* C29: the active field is a probability field only while the method is
\* kelly
C29_ProbabilityFieldOnlyForKelly ==
  pc = "tui"
    => (model.activeField \in {fieldProbA, fieldProbB}
          => model.method = MethodKelly)

\* C30: exactly one of the seven fields is focused, and it is the field
\* activeField indexes, with 0 <= activeField < fieldCount
C30_ExactlyActiveFieldFocused ==
  pc = "tui"
    => /\ model.activeField \in Fields
       /\ \A i \in Fields : model.focused[i] <=> (i = model.activeField)

\* the focus has been moved to the last field and the text of another
\* field has been edited
C30_Witness ==
  /\ pc = "tui"
  /\ model.activeField = fieldProbB
  /\ model.focused[fieldProbB]
  /\ ~model.focused[fieldOddsA]
  /\ model.value[fieldOddsA] = 250

====
